---- MODULE Spec2Model ----
(***************************************************************************)
(* A model of velox/common/memory/ByteStream.h: ByteRange and ByteStream,  *)
(* a stream over a chain of ByteRanges kept in a std::vector, with a raw   *)
(* pointer current_ into that vector.                                      *)
(*                                                                         *)
(* Memory is modelled explicitly.  Arena (or caller) buffers live in mem   *)
(* and a ByteRange names its buffer by index.  The element storage of      *)
(* ranges_ is a heap block (vecBlock) of capacity vecCap; a ByteRange* is  *)
(* a pair [blk, idx], so that a pointer taken before the vector grew its   *)
(* storage can be told from a pointer to a live element.                   *)
(*                                                                         *)
(* Primitive values are unsigned bit patterns of width 1, 2 or 4 bytes on  *)
(* a little-endian machine (the wire format is the machine byte order);    *)
(* width 8 is left out because the model's integers are 32 bits wide.      *)
(*                                                                         *)
(* A stream made with isBits counts position in bits while size stays the  *)
(* byte count the arena gave: bit k of a buffer is bit k % 8 of its byte   *)
(* k / 8.                                                                  *)
(***************************************************************************)
EXTENDS Integers, Sequences, FiniteSets, TLC

VARIABLES
  isBits,    \* isBits_: position in ranges_ is in bits, not bytes (const)
  ranges,    \* ranges_: the sequence of ByteRange [buffer, size, position]
  mem,       \* the buffers the ranges point to: mem[b] is a sequence of bytes
  current,   \* current_: a ByteRange*, [blk, idx]; blk 0 is nullptr
  vecBlock,  \* the heap block holding the elements of ranges_ (0: none)
  vecCap,    \* ranges_.capacity()
  saved,     \* the Position last returned by tellp(): [ptr, off]
  outcome,   \* how the last call ended: ok, eos, check, ub
  lastOp,    \* the last call and its arguments
  ret,       \* what the last call returned
  phase,     \* usage protocol: new, output, reread, input
  written,   \* history: the items appended so far, in order
  readBack,  \* history: the items read back so far, in order
  hw,        \* history: per range, the highest position a writer reached
  bools      \* history: the runs [v, n] passed to appendBool, in order

vars == <<isBits, ranges, mem, current, vecBlock, vecCap, saved, outcome,
          lastOp, ret, phase, written, readBack, hw, bools>>

(***************************************************************************)
(* Bounds of the model.                                                    *)
(***************************************************************************)
\* memory::MappedMemory::kPageSize, scaled down from 4096 to keep buffers small.
kPageSize == 4
\* At most this many values or string pieces are appended to one stream.
MaxItems == 3
\* An input stream is given 1..MaxInputRanges ranges.
MaxInputRanges == 3
\* Largest argument of readBytes, skip and nextView.
MaxRequest == 4

\* At most this many calls of appendBool are made on one stream.
MaxBoolCalls == 3

\* Heap addresses for the storage of ranges_.  Three are enough: an address is
\* only ever compared with current_ and with the pointer of the saved Position.
Blocks == {1, 2, 3}

\* sizeof(T) of the primitive types modelled.
Widths == {1, 2, 4}

\* Bit patterns of each width: 0x11, 0x22; 0x1122, 0x3344; 0x11223344, 0x41526374.
Values(w) ==
  CASE w = 1 -> {17, 34}
    [] w = 2 -> {4386, 13124}
    [] w = 4 -> {287454020, 1095918452}

\* The spans handed to append<T>: two values.
Spans(w) == [1..2 -> Values(w)]

\* The string pieces handed to appendStringPiece: 0x33, 0x34, ... of some length.
Pieces == {[i \in 1..k |-> 50 + i] : k \in {0, 1, 3}}

\* The counts appendBool is called with.
BoolCounts == {0, 1, 3, 10}

\* The sizes startWrite is called with.
InitialSizes == {2, 3}

\* The sizes of the ranges of an input stream.
InputSizes == {0, 1, 2, 3}

(***************************************************************************)
(* Helpers.                                                                *)
(***************************************************************************)
Min(a, b) == IF a < b THEN a ELSE b

Max(a, b) == IF a > b THEN a ELSE b

RECURSIVE Pow256(_)
Pow256(i) == IF i = 0 THEN 1 ELSE 256 * Pow256(i - 1)

\* bits::roundUp(value, factor)
roundUp(value, factor) == ((value + factor - 1) \div factor) * factor

\* The object representation of a w-byte value in machine (little-endian) order.
ToBytes(v, w) == [i \in 1..w |-> (v \div Pow256(i - 1)) % 256]

\* *reinterpret_cast<const T*>(p): the value whose object representation is bs.
RECURSIVE FromBytes(_)
FromBytes(bs) ==
  IF Len(bs) = 0 THEN 0
  ELSE bs[1] + 256 * FromBytes(Tail(bs))

\* The bytes of a span of values, as reinterpret_cast<const char*>(&values[0]).
RECURSIVE SpanBytes(_, _)
SpanBytes(vals, w) ==
  IF Len(vals) = 0 THEN <<>>
  ELSE ToBytes(vals[1], w) \o SpanBytes(Tail(vals), w)

\* A faulty copy: the n bytes are inserted at dOff and the bytes that were
\* there move up by n.
memcpyInserts(dst, dOff, src, sOff, n) ==
  [i \in 1..Len(dst) |->
     IF i <= dOff THEN dst[i]
     ELSE IF i <= dOff + n THEN src[sOff + (i - dOff)]
     ELSE dst[i - n]]

\* memcpy(dst + dOff, src + sOff, n) on sequences (offsets are 0-based).
memcpy(dst, dOff, src, sOff, n) ==
  [i \in 1..Len(dst) |->
     IF i > dOff /\ i <= dOff + n THEN src[sOff + (i - dOff)] ELSE dst[i]]

RECURSIVE Pow2(_)
Pow2(i) == IF i = 0 THEN 1 ELSE 2 * Pow2(i - 1)

\* Bit i (0 the least significant) of the byte v.
Bit(v, i) == (v \div Pow2(i)) % 2

\* The byte whose bit i is f[i], for the bits from i up.
RECURSIVE ByteOfBits(_, _)
ByteOfBits(f, i) ==
  IF i > 7 THEN 0 ELSE f[i] * Pow2(i) + ByteOfBits(f, i + 1)

\* The byte a read-modify-write finds: an indeterminate byte (-1) has some
\* value, fill.
Known(v, fill) == IF v = -1 THEN fill ELSE v

\* bits::nbytes(bits): the number of bytes that hold that many bits.
nbytes(n) == (n + 7) \div 8

\* bits::setBit(bits, idx, value) on the bytes of a buffer; value is 0 or 1.
setBit(bytes, idx, value, fill) ==
  LET j == idx \div 8 + 1
      old == Known(bytes[j], fill)
  IN [bytes EXCEPT ![j] =
        ByteOfBits([i \in 0..7 |-> IF i = idx % 8 THEN value ELSE Bit(old, i)],
                   0)]

\* bits::fillBits(bits, begin, end, value): the bits begin..end-1 are set to
\* value, every other bit is left as it was.
fillBits(bytes, begin, end, value, fill) ==
  [j \in 1..Len(bytes) |->
     IF 8 * j <= begin \/ 8 * (j - 1) >= end \/ begin >= end THEN bytes[j]
     ELSE LET old == Known(bytes[j], fill) IN
          ByteOfBits([i \in 0..7 |->
                        IF 8 * (j - 1) + i >= begin /\ 8 * (j - 1) + i < end
                        THEN value ELSE Bit(old, i)], 0)]

\* Bit idx of a buffer, or -1 where the byte is indeterminate.
BitAt(bytes, idx) ==
  IF bytes[idx \div 8 + 1] = -1 THEN -1 ELSE Bit(bytes[idx \div 8 + 1], idx % 8)

NullPtr == [blk |-> 0, idx |-> 0]

NoPosition == [ptr |-> NullPtr, off |-> 0]

NoRet == [val |-> -1, bytes |-> <<>>, vbuf |-> 0, vstart |-> 0, hops |-> 0,
          reqs |-> <<>>]

\* The record of a call: its name, a count or size n, a width w, and a flag:
\* for seekp, that it directly follows the tellp whose Position it is given;
\* for an append, that it directly follows such a seekp.
NoOp == [op |-> "none", n |-> 0, w |-> 0, flag |-> FALSE]

Op(name, n, w, flag) == [op |-> name, n |-> n, w |-> w, flag |-> flag]

\* The stream object as a value, and the result of a call on it.
Self == [isBits |-> isBits, ranges |-> ranges, mem |-> mem,
         current |-> current, vecBlock |-> vecBlock, vecCap |-> vecCap]

Res(s, out, r) == [s |-> s, out |-> out, ret |-> r]

\* *current_
Cur(s) == s.ranges[s.current.idx]

\* current_->position = p
SetPos(s, p) == [s EXCEPT !.ranges[s.current.idx].position = p]

\* current_ points to a live element of ranges_.
Live(s) == s.current.blk = s.vecBlock /\ s.current.idx \in 1..Len(s.ranges)

(***************************************************************************)
(* ByteStream: observers and the input path.                               *)
(***************************************************************************)
\* size(): the sum of position over ranges_.
RECURSIVE SumPositions(_)
SumPositions(rs) ==
  IF Len(rs) = 0 THEN 0
  ELSE rs[1].position + SumPositions(Tail(rs))

size(s) == SumPositions(s.ranges)

\* atEnd(): [out, val]; the VELOX_CHECK guards the index of current_.
atEnd(s) ==
  IF Cur(s).position < Cur(s).size THEN [out |-> "ok", val |-> FALSE]
  ELSE LET position == s.current.idx - 1 IN
       IF ~(position >= 0 /\ position < Len(s.ranges))
       THEN [out |-> "check", val |-> FALSE]
       ELSE IF position = Len(s.ranges) - 1
            THEN [out |-> "ok", val |-> TRUE]
            ELSE [out |-> "ok", val |-> FALSE]

\* A faulty next: the position of the range it moves to is left as it was.
nextKeepsPosition(s, throwIfPastEnd) ==
  LET position == s.current.idx - 1 IN
  IF ~(position >= 0 /\ position < Len(s.ranges))
  THEN Res(s, "check", NoRet)
  ELSE IF position = Len(s.ranges) - 1
       THEN Res(s, IF throwIfPastEnd THEN "eos" ELSE "ok", NoRet)
       ELSE Res([s EXCEPT !.current.idx = @ + 1], "ok", NoRet)

\* next(throwIfPastEnd)
next(s, throwIfPastEnd) ==
  LET position == s.current.idx - 1 IN
  IF ~(position >= 0 /\ position < Len(s.ranges))
  THEN Res(s, "check", NoRet)
  ELSE IF position = Len(s.ranges) - 1
       THEN Res(s, IF throwIfPastEnd THEN "eos" ELSE "ok", NoRet)
       ELSE Res([s EXCEPT !.current.idx = @ + 1,
                          !.ranges[s.current.idx + 1].position = 0],
                "ok", NoRet)

\* A faulty readByte: it fails at the end of the current range instead of
\* moving to the next one.
readByteStaysInRange(s) ==
  IF Cur(s).position < Cur(s).size
  THEN Res(SetPos(s, Cur(s).position + 1), "ok",
           [NoRet EXCEPT !.val = s.mem[Cur(s).buffer][Cur(s).position + 1]])
  ELSE Res(s, "eos", NoRet)

\* readByte(): ret.val is the byte, ret.hops the number of next() calls made.
RECURSIVE readByte(_)
readByte(s) ==
  IF Cur(s).position < Cur(s).size
  THEN Res(SetPos(s, Cur(s).position + 1), "ok",
           [NoRet EXCEPT !.val = s.mem[Cur(s).buffer][Cur(s).position + 1]])
  ELSE LET n == next(s, TRUE) IN
       IF n.out # "ok" THEN n
       ELSE LET r == readByte(n.s) IN [r EXCEPT !.ret.hops = @ + 1]

\* A faulty straddling loop: the bytes are assembled most significant first.
RECURSIVE readStraddleBigEndian(_, _, _, _, _)
readStraddleBigEndian(s, w, i, value, hops) ==
  IF i >= w
  THEN Res(s, "ok", [NoRet EXCEPT !.val = value, !.hops = hops])
  ELSE LET b == readByte(s) IN
       IF b.out # "ok" THEN Res(b.s, b.out, [NoRet EXCEPT !.hops = hops])
       ELSE readStraddleBigEndian(b.s, w, i + 1, value * 256 + b.ret.val,
                                  hops + b.ret.hops)

\* The loop of read<T>() for a value that straddles buffers:
\* value |= static_cast<uint64_t>(readByte()) << (i * 8).  The shifted bytes
\* occupy disjoint bits, so the bitwise or is a sum; the result is the T at
\* the address of the word, its w low-order bytes on a little-endian machine,
\* which is the whole of value since only w bytes were or-ed in.
RECURSIVE readStraddle(_, _, _, _, _)
readStraddle(s, w, i, value, hops) ==
  IF i >= w
  THEN Res(s, "ok", [NoRet EXCEPT !.val = value, !.hops = hops])
  ELSE LET b == readByte(s) IN
       IF b.out # "ok" THEN Res(b.s, b.out, [NoRet EXCEPT !.hops = hops])
       ELSE readStraddle(b.s, w, i + 1, value + b.ret.val * Pow256(i),
                         hops + b.ret.hops)

\* read<T>() with sizeof(T) = w.
read(s, w) ==
  IF Cur(s).position + w <= Cur(s).size
  THEN LET p == Cur(s).position + w IN
       Res(SetPos(s, p), "ok",
           [NoRet EXCEPT !.val =
              FromBytes(SubSeq(s.mem[Cur(s).buffer], p - w + 1, p))])
  ELSE readStraddle(s, w, 0, 0, 0)

\* A faulty readBytes loop: every chunk is copied to the start of the
\* destination.
RECURSIVE readBytesLoopNoOffset(_, _, _, _)
readBytesLoopNoOffset(s, bytes, offset, sz) ==
  LET available == Cur(s).size - Cur(s).position
      numUsed == Min(available, sz)
      bytes1 == memcpy(bytes, 0, s.mem[Cur(s).buffer], Cur(s).position,
                       numUsed)
      s1 == SetPos(s, Cur(s).position + numUsed)
      left == sz - numUsed
  IN IF left = 0 THEN Res(s1, "ok", [NoRet EXCEPT !.bytes = bytes1])
     ELSE LET n == next(s1, TRUE) IN
          IF n.out # "ok" THEN Res(n.s, n.out, [NoRet EXCEPT !.bytes = bytes1])
          ELSE readBytesLoopNoOffset(n.s, bytes1, offset + numUsed, left)

\* The loop of readBytes(bytes, size); bytes is the destination.
RECURSIVE readBytesLoop(_, _, _, _)
readBytesLoop(s, bytes, offset, sz) ==
  LET available == Cur(s).size - Cur(s).position
      numUsed == Min(available, sz)
      bytes1 == memcpy(bytes, offset, s.mem[Cur(s).buffer], Cur(s).position,
                       numUsed)
      s1 == SetPos(s, Cur(s).position + numUsed)
      left == sz - numUsed
  IN IF left = 0 THEN Res(s1, "ok", [NoRet EXCEPT !.bytes = bytes1])
     ELSE LET n == next(s1, TRUE) IN
          IF n.out # "ok" THEN Res(n.s, n.out, [NoRet EXCEPT !.bytes = bytes1])
          ELSE readBytesLoop(n.s, bytes1, offset + numUsed, left)

\* readBytes(bytes, size): the destination starts out unwritten (-1).
readBytes(s, sz) == readBytesLoop(s, [i \in 1..sz |-> -1], 0, sz)

\* A faulty view: its length is the requested size, not clamped to the range.
viewHereUnclamped(s, sz) ==
  IF Cur(s).size = 0 THEN Res(s, "check", NoRet)
  ELSE LET position == Cur(s).position
           viewSize == sz
       IN Res(SetPos(s, position + viewSize), "ok",
              [NoRet EXCEPT !.val = viewSize, !.vbuf = Cur(s).buffer,
                            !.vstart = position])

\* A faulty view: the bytes handed out are taken off the end of the range
\* instead of being passed by the position.
viewHereShrinksRange(s, sz) ==
  IF Cur(s).size = 0 THEN Res(s, "check", NoRet)
  ELSE LET position == Cur(s).position
           viewSize == Min(Cur(s).size - Cur(s).position, sz)
       IN Res([s EXCEPT !.ranges[s.current.idx].size = @ - viewSize], "ok",
              [NoRet EXCEPT !.val = viewSize, !.vbuf = Cur(s).buffer,
                            !.vstart = position])

\* The part of nextView(size) after the optional advance.
viewHere(s, sz) ==
  IF Cur(s).size = 0 THEN Res(s, "check", NoRet)
  ELSE LET position == Cur(s).position
           viewSize == Min(Cur(s).size - Cur(s).position, sz)
       IN Res(SetPos(s, position + viewSize), "ok",
              [NoRet EXCEPT !.val = viewSize, !.vbuf = Cur(s).buffer,
                            !.vstart = position])

\* A faulty nextView: at the end of a range it advances without asking whether
\* the range is the last.
nextViewAlwaysAdvances(s, sz) ==
  IF Cur(s).position = Cur(s).size
  THEN LET n == next(s, TRUE) IN
       IF n.out # "ok" THEN n ELSE viewHere(n.s, sz)
  ELSE viewHere(s, sz)

\* nextView(size): ret.val is the length of the view, ret.vbuf and ret.vstart
\* its buffer and first offset (vbuf 0: nullptr).
nextView(s, sz) ==
  IF Cur(s).position = Cur(s).size
  THEN IF s.current.idx = Len(s.ranges)
       THEN Res(s, "ok", [NoRet EXCEPT !.val = 0])
       ELSE LET n == next(s, TRUE) IN
            IF n.out # "ok" THEN n ELSE viewHere(n.s, sz)
  ELSE viewHere(s, sz)

\* A faulty skip: it stops at the end of the current range.
skipStopsAtBoundary(s, sz) ==
  LET available == Cur(s).size - Cur(s).position
      numUsed == Min(available, sz)
  IN Res(SetPos(s, Cur(s).position + numUsed), "ok", NoRet)

\* skip(size)
RECURSIVE skip(_, _)
skip(s, sz) ==
  LET available == Cur(s).size - Cur(s).position
      numUsed == Min(available, sz)
      s1 == SetPos(s, Cur(s).position + numUsed)
      left == sz - numUsed
  IN IF left = 0 THEN Res(s1, "ok", NoRet)
     ELSE LET n == next(s1, TRUE) IN
          IF n.out # "ok" THEN Res(n.s, n.out, NoRet)
          ELSE skip(n.s, left)

(***************************************************************************)
(* ByteStream: the output path.  An oracle a gives what the environment    *)
(* decides in a call: a.slack, whether the arena rounds the new range up   *)
(* to whole pages; a.blk and a.grow, where and how large the vector's      *)
(* storage is reallocated.  The bytes of a new buffer are indeterminate,   *)
(* written -1: no byte a caller stores equals it.                          *)
(***************************************************************************)
Oracles == [slack : BOOLEAN, blk : Blocks, grow : {1, 2}]

\* The capacity std::vector grows to from capacity n: doubling, or by half.
GrowCapacity(n, g) ==
  IF n = 0 THEN 1
  ELSE IF g = 1 THEN 2 * n ELSE n + Max(1, n \div 2)

\* A faulty emplace_back: when the storage is reallocated the elements arrive
\* in the new block with their positions reset.
emplace_backLosesPositions(s, a) ==
  LET full == Len(s.ranges) = s.vecCap
      moved == [i \in 1..Len(s.ranges) |->
                  IF full THEN [s.ranges[i] EXCEPT !.position = 0]
                  ELSE s.ranges[i]]
  IN [s EXCEPT !.ranges = Append(moved,
                                 [buffer |-> 0, size |-> 0, position |-> 0]),
               !.vecBlock = IF full THEN a.blk ELSE @,
               !.vecCap = IF full THEN GrowCapacity(s.vecCap, a.grow) ELSE @]

\* ranges_.emplace_back(): reallocates the storage when it is full.
emplace_back(s, a) ==
  LET full == Len(s.ranges) = s.vecCap IN
  [s EXCEPT !.ranges = Append(@, [buffer |-> 0, size |-> 0, position |-> 0]),
            !.vecBlock = IF full THEN a.blk ELSE @,
            !.vecCap = IF full THEN GrowCapacity(s.vecCap, a.grow) ELSE @]

\* StreamArena::newRange(bytes, range): a fresh buffer of at least bytes bytes.
newRange(s, bytes, a) ==
  LET sz == IF a.slack THEN roundUp(bytes, kPageSize) ELSE bytes IN
  [s EXCEPT !.mem = Append(@, [i \in 1..sz |-> -1]),
            !.ranges[s.current.idx] =
               [buffer |-> Len(s.mem) + 1, size |-> sz, position |-> 0]]

\* extend(bytes)
extend(s, bytes, a) ==
  LET e == emplace_back(s, a)
      c == [blk |-> e.vecBlock, idx |-> Len(e.ranges)]
  IN newRange([e EXCEPT !.current = c], bytes, a)

\* A faulty loop of appendStringPiece: extend is asked for the outstanding
\* bytes as they are, not rounded up to pages.
RECURSIVE appendLoopExactRequest(_, _, _, _, _)
appendLoopExactRequest(s, value, offset, a, reqs) ==
  LET bytes == Len(value)
      bytesFit == Min(bytes - offset, Cur(s).size - Cur(s).position)
      s1 == [SetPos(s, Cur(s).position + bytesFit) EXCEPT
               !.mem[Cur(s).buffer] =
                  memcpy(@, Cur(s).position, value, offset, bytesFit)]
      offset1 == offset + bytesFit
  IN IF offset1 = bytes THEN Res(s1, "ok", [NoRet EXCEPT !.reqs = reqs])
     ELSE LET req == bytes - offset1 IN
          appendLoopExactRequest(extend(s1, req, a), value, offset1, a,
                                 Append(reqs, req))

\* The loop of appendStringPiece(value); ret.reqs lists the sizes asked of extend.
RECURSIVE appendLoop(_, _, _, _, _)
appendLoop(s, value, offset, a, reqs) ==
  LET bytes == Len(value)
      bytesFit == Min(bytes - offset, Cur(s).size - Cur(s).position)
      s1 == [SetPos(s, Cur(s).position + bytesFit) EXCEPT
               !.mem[Cur(s).buffer] =
                  memcpy(@, Cur(s).position, value, offset, bytesFit)]
      offset1 == offset + bytesFit
  IN IF offset1 = bytes THEN Res(s1, "ok", [NoRet EXCEPT !.reqs = reqs])
     ELSE LET req == roundUp(bytes - offset1, kPageSize) IN
          appendLoop(extend(s1, req, a), value, offset1, a, Append(reqs, req))

\* appendStringPiece(value)
appendStringPiece(s, value, a) == appendLoop(s, value, 0, a, <<>>)

\* A faulty append: the fast path advances position by the number of values,
\* not by their bytes.
appendCountsValues(s, w, values, a) ==
  IF Cur(s).position + w * Len(values) > Cur(s).size
  THEN appendStringPiece(s, SpanBytes(values, w), a)
  ELSE Res([SetPos(s, Cur(s).position + Len(values)) EXCEPT
              !.mem[Cur(s).buffer] =
                 memcpy(@, Cur(s).position, SpanBytes(values, w), 0,
                        w * Len(values))],
           "ok", NoRet)

\* A faulty append: values that do not fit are not split, they go to a new
\* range as a whole and the rest of the current range is left unused.
appendLeavesGap(s, w, values, a) ==
  IF Cur(s).position + w * Len(values) > Cur(s).size
  THEN appendStringPiece(extend(s, roundUp(w * Len(values), kPageSize), a),
                         SpanBytes(values, w), a)
  ELSE Res([SetPos(s, Cur(s).position + w * Len(values)) EXCEPT
              !.mem[Cur(s).buffer] =
                 memcpy(@, Cur(s).position, SpanBytes(values, w), 0,
                        w * Len(values))],
           "ok", NoRet)

\* append<T>(values) with sizeof(T) = w.
append(s, w, values, a) ==
  IF Cur(s).position + w * Len(values) > Cur(s).size
  THEN appendStringPiece(s, SpanBytes(values, w), a)
  ELSE Res([SetPos(s, Cur(s).position + w * Len(values)) EXCEPT
              !.mem[Cur(s).buffer] =
                 memcpy(@, Cur(s).position, SpanBytes(values, w), 0,
                        w * Len(values))],
           "ok", NoRet)

\* appendOne<T>(value)
appendOne(s, w, value, a) == append(s, w, <<value>>, a)

\* A faulty loop of appendBool: the run is filled from the bit the call has
\* reached in its own count, not from the position of the range.
RECURSIVE appendBoolLoopFillsAtOffset(_, _, _, _, _, _)
appendBoolLoopFillsAtOffset(s, value, count, offset, a, reqs) ==
  LET bitsFit == Min(count - offset, Cur(s).size * 8 - Cur(s).position)
      s1 == [SetPos(s, Cur(s).position + bitsFit) EXCEPT
               !.mem[Cur(s).buffer] =
                  fillBits(@, offset, offset + bitsFit, value, a.fill)]
      offset1 == offset + bitsFit
  IN IF offset1 = count THEN Res(s1, "ok", [NoRet EXCEPT !.reqs = reqs])
     ELSE LET req == nbytes(count - offset1) IN
          appendBoolLoopFillsAtOffset(extend(s1, req, a), value, count,
                                      offset1, a, Append(reqs, req))

\* A faulty loop of appendBool: the whole run is put into the current range,
\* whatever room it has.
appendBoolLoopUnclamped(s, value, count, offset, a, reqs) ==
  LET bitsFit == count - offset
      s1 == [SetPos(s, Cur(s).position + bitsFit) EXCEPT
               !.mem[Cur(s).buffer] =
                  fillBits(@, Cur(s).position, Cur(s).position + bitsFit,
                           value, a.fill)]
  IN Res(s1, "ok", [NoRet EXCEPT !.reqs = reqs])

\* The loop of appendBool(value, count); ret.reqs lists the sizes asked of
\* extend.
RECURSIVE appendBoolLoop(_, _, _, _, _, _)
appendBoolLoop(s, value, count, offset, a, reqs) ==
  LET bitsFit == Min(count - offset, Cur(s).size * 8 - Cur(s).position)
      s1 == [SetPos(s, Cur(s).position + bitsFit) EXCEPT
               !.mem[Cur(s).buffer] =
                  fillBits(@, Cur(s).position, Cur(s).position + bitsFit,
                           value, a.fill)]
      offset1 == offset + bitsFit
  IN IF offset1 = count THEN Res(s1, "ok", [NoRet EXCEPT !.reqs = reqs])
     ELSE LET req == nbytes(count - offset1) IN
          appendBoolLoop(extend(s1, req, a), value, count, offset1, a,
                         Append(reqs, req))

\* appendBool(value, count).  VELOX_DCHECK(isBits_) comes after the path for
\* a single bit and is compiled only into a debug build (a.dcheck).
appendBool(s, value, count, a) ==
  IF count = 1 /\ Cur(s).size * 8 - Cur(s).position # 0
  THEN Res([SetPos(s, Cur(s).position + 1) EXCEPT
              !.mem[Cur(s).buffer] =
                 setBit(@, Cur(s).position, value, a.fill)],
           "ok", NoRet)
  ELSE IF a.dcheck /\ ~s.isBits THEN Res(s, "check", NoRet)
  ELSE appendBoolLoop(s, value, count, 0, a, <<>>)

\* startWrite(initialSize)
startWrite(s, initialSize, a) == Res(extend(s, initialSize, a), "ok", NoRet)

\* resetInput(std::move(ranges)): the stream takes over the storage of the
\* argument, a block other than its own.
resetInput(s, rs, blk) ==
  Res([s EXCEPT !.ranges = rs, !.vecBlock = blk, !.vecCap = Len(rs),
                !.current = [blk |-> blk, idx |-> 1]],
      "ok", NoRet)

\* setRange(range): ranges_.resize(1) allocates only when there is no storage.
setRange(s, range, blk) ==
  LET b == IF s.vecCap = 0 THEN blk ELSE s.vecBlock IN
  Res([s EXCEPT !.ranges = <<range>>, !.vecBlock = b,
                !.vecCap = Max(1, s.vecCap),
                !.current = [blk |-> b, idx |-> 1]],
      "ok", NoRet)

\* tellp()
tellp(s) == [ptr |-> s.current, off |-> Cur(s).position]

\* seekp(position).  When the pointer no longer points into the storage of
\* ranges_ (the vector reallocated since tellp), the store through it is
\* undefined behaviour: the outcome "ub" stands for whatever the build does
\* then, current_ dangles, and the model follows the stream no further.  A
\* reallocation that returns the very address the Position holds (AllocBlocks)
\* leaves the pointer usable.
seekp(s, position) ==
  LET s1 == [s EXCEPT !.current = position.ptr] IN
  IF Live(s1) THEN Res(SetPos(s1, position.off), "ok", NoRet)
  ELSE Res(s1, "ub", NoRet)

\* seek(range, position) with a 0-based range index.
seek(s, range, position) ==
  LET s1 == [s EXCEPT !.current = [blk |-> s.vecBlock, idx |-> range + 1]] IN
  IF Live(s1) THEN Res(SetPos(s1, position), "ok", NoRet)
  ELSE Res(s1, "ub", NoRet)

\* writePosition(): [buffer, offset], or [0, 0] for nullptr.
writePosition(s) ==
  IF Len(s.ranges) = 0 THEN [buffer |-> 0, offset |-> 0]
  ELSE [buffer |-> Cur(s).buffer, offset |-> Cur(s).position]

(***************************************************************************)
(* The state machine.  Init is a stream right after construction, by the    *)
(* input constructor (isBits_ false) or by the output constructor with     *)
(* either value of isBits.                                                 *)
(***************************************************************************)
Init ==
  /\ isBits \in BOOLEAN
  /\ ranges = <<>>
  /\ mem = <<>>
  /\ current = NullPtr
  /\ vecBlock = 0
  /\ vecCap = 0
  /\ saved = NoPosition
  /\ outcome = "ok"
  /\ lastOp = NoOp
  /\ ret = NoRet
  /\ phase = "new"
  /\ written = <<>>
  /\ readBack = <<>>
  /\ hw = <<>>
  /\ bools = <<>>

\* The addresses a reallocation of the vector's storage may return: an address
\* no pointer of the model holds, or the freed address the saved Position holds.
AllocBlocks ==
  LET held == {vecBlock, saved.ptr.blk}
      fresh == CHOOSE b \in Blocks \ held : \A c \in Blocks \ held : b <= c
  IN {fresh} \cup (Blocks \cap ({saved.ptr.blk} \ {vecBlock}))

\* The oracles the environment may present in the present state.
Env == {a \in Oracles : a.blk \in AllocBlocks}

\* The call returned r: the stream and the record of the call are updated.
Install(r, op) ==
  /\ ranges' = r.s.ranges
  /\ mem' = r.s.mem
  /\ current' = r.s.current
  /\ vecBlock' = r.s.vecBlock
  /\ vecCap' = r.s.vecCap
  /\ outcome' = r.out
  /\ ret' = r.ret
  /\ lastOp' = op

\* History of a writer: the highest position each range has reached.
Track(r) ==
  hw' = [i \in 1..Len(r.s.ranges) |->
           Max(IF i <= Len(hw) THEN hw[i] ELSE 0, r.s.ranges[i].position)]

\* History: the record of the k-th value of a span of width w appended when
\* room bytes were left in the current range.
Item(w, v, k, room) ==
  [w |-> w, v |-> v, bytes |-> ToBytes(v, w),
   fit |-> IF room <= (k - 1) * w THEN 0
           ELSE IF room >= k * w THEN w ELSE room - (k - 1) * w]

\* History: the record of a string piece.
PieceItem(piece, room) ==
  [w |-> 0, v |-> -1, bytes |-> piece, fit |-> Min(room, Len(piece))]

Room == ranges[current.idx].size - ranges[current.idx].position

\* startWrite(initialSize) on a new output stream.
StartWrite ==
  /\ phase = "new"
  /\ \E initialSize \in InitialSizes, a \in Env :
       /\ Install(startWrite(Self, initialSize, a),
                  Op("startWrite", initialSize, 0, FALSE))
       /\ Track(startWrite(Self, initialSize, a))
  /\ phase' = "output"
  /\ UNCHANGED <<isBits, bools, saved, written, readBack>>

\* append<T>(values) with a span of several values, on a byte-addressed
\* stream.
AppendValues ==
  /\ phase = "output"
  /\ ~isBits
  /\ outcome # "ub"
  /\ \E w \in Widths : \E values \in Spans(w) : \E a \in Env :
       /\ Len(written) + Len(values) <= MaxItems
       /\ Install(append(Self, w, values, a),
                  Op("append", Len(values), w,
                     lastOp.op = "seekp" /\ lastOp.flag))
       /\ Track(append(Self, w, values, a))
       /\ written' = written \o
            [k \in 1..Len(values) |-> Item(w, values[k], k, Room)]
  /\ UNCHANGED <<isBits, bools, saved, phase, readBack>>

\* appendOne<T>(value)
AppendOne ==
  /\ phase = "output"
  /\ ~isBits
  /\ outcome # "ub"
  /\ Len(written) < MaxItems
  /\ \E w \in Widths : \E value \in Values(w) : \E a \in Env :
       /\ Install(appendOne(Self, w, value, a),
                  Op("append", 1, w, lastOp.op = "seekp" /\ lastOp.flag))
       /\ Track(appendOne(Self, w, value, a))
       /\ written' = Append(written, Item(w, value, 1, Room))
  /\ UNCHANGED <<isBits, bools, saved, phase, readBack>>

\* appendStringPiece(value)
AppendPiece ==
  /\ phase = "output"
  /\ ~isBits
  /\ outcome # "ub"
  /\ Len(written) < MaxItems
  /\ \E piece \in Pieces : \E a \in Env :
       /\ Install(appendStringPiece(Self, piece, a),
                  Op("appendStringPiece", Len(piece), 0,
                     lastOp.op = "seekp" /\ lastOp.flag))
       /\ Track(appendStringPiece(Self, piece, a))
       /\ written' = Append(written, PieceItem(piece, Room))
  /\ UNCHANGED <<isBits, bools, saved, phase, readBack>>

\* What the environment decides in a call of appendBool: as for the other
\* appends, and fill, the value an indeterminate byte turns out to have when
\* a bit of it is first written, and dcheck, whether the build compiles
\* VELOX_DCHECK.
BoolOracles ==
  [slack : BOOLEAN, blk : Blocks, grow : {1, 2}, fill : {0, 255},
   dcheck : BOOLEAN]

BoolEnv == {a \in BoolOracles : a.blk \in AllocBlocks}

\* appendBool(value, count) on a bit-addressed stream.
AppendBool ==
  /\ phase = "output"
  /\ isBits
  /\ outcome # "ub"
  /\ Len(bools) < MaxBoolCalls
  /\ \E value \in {0, 1} : \E count \in BoolCounts : \E a \in BoolEnv :
       /\ Install(appendBool(Self, value, count, a),
                  Op("appendBool", count, 0,
                     lastOp.op = "seekp" /\ lastOp.flag))
       /\ Track(appendBool(Self, value, count, a))
       /\ bools' = Append(bools, [v |-> value, n |-> count])
  /\ UNCHANGED <<isBits, saved, phase, written, readBack>>

\* appendBool(value, count) on a byte-addressed stream, as the first call
\* after startWrite.  The call is a programming error: the model records what
\* it did and follows the stream no further (phase misused).
AppendBoolOnBytes ==
  /\ phase = "output"
  /\ ~isBits
  /\ lastOp.op = "startWrite"
  /\ \E value \in {0, 1} : \E count \in BoolCounts : \E a \in BoolEnv :
       /\ Install(appendBool(Self, value, count, a),
                  Op("appendBool", count, 0,
                     lastOp.op = "seekp" /\ lastOp.flag))
       /\ Track(appendBool(Self, value, count, a))
       /\ bools' = Append(bools, [v |-> value, n |-> count])
  /\ phase' = "misused"
  /\ UNCHANGED <<isBits, saved, written, readBack>>

\* The writers of well-formed streams: startWrite and every append.
NextAppend ==
  StartWrite \/ AppendOne \/ AppendValues \/ AppendPiece \/ AppendBool

SpecAppend == Init /\ [][NextAppend]_vars

\* A writer of bits, on a stream of either addressing mode.
NextBits == StartWrite \/ AppendBool \/ AppendBoolOnBytes

SpecBits == Init /\ [][NextBits]_vars

\* The written content of the stream as input ranges: the first position bytes
\* of each range, in range order (what ranges() shows a reader).
Content(rs) == [i \in 1..Len(rs) |-> [rs[i] EXCEPT !.size = rs[i].position,
                                                  !.position = 0]]

\* The writer is done: a reader is given the written content by resetInput.
Reread ==
  /\ phase = "output"
  /\ outcome # "ub"
  /\ Len(written) > 0
  /\ \E blk \in AllocBlocks :
       Install(resetInput(Self, Content(ranges), blk),
               Op("resetInput", Len(ranges), 0, FALSE))
  /\ phase' = "reread"
  /\ UNCHANGED <<isBits, bools, saved, written, readBack, hw>>

\* The reader reads the next item back: a value with read<T>, a piece with
\* readBytes.
ReadBack ==
  /\ phase = "reread"
  /\ Len(readBack) < Len(written)
  /\ LET item == written[Len(readBack) + 1]
         r == IF item.w > 0 THEN read(Self, item.w)
              ELSE readBytes(Self, Len(item.bytes))
     IN /\ Install(r, Op(IF item.w > 0 THEN "read" ELSE "readBytes",
                         Len(item.bytes), item.w, FALSE))
        /\ readBack' = Append(readBack,
                              [out |-> r.out, v |-> r.ret.val,
                               bytes |-> r.ret.bytes])
  /\ UNCHANGED <<isBits, bools, saved, phase, written, hw>>

NextWrite ==
  StartWrite \/ AppendOne \/ AppendValues \/ AppendPiece \/ Reread \/ ReadBack

SpecWrite == Init /\ [][NextWrite]_vars

\* tellp(): the caller keeps the Position.
Tellp ==
  /\ phase = "output"
  /\ outcome # "ub"
  /\ saved' = tellp(Self)
  /\ lastOp' = Op("tellp", 0, 0, FALSE)
  /\ outcome' = "ok"
  /\ ret' = NoRet
  /\ UNCHANGED <<isBits, bools, ranges, mem, current, vecBlock, vecCap, phase,
                 written, readBack, hw>>

\* seekp(position) with the Position the caller kept.
Seekp ==
  /\ phase = "output"
  /\ outcome # "ub"
  /\ saved # NoPosition
  /\ Install(seekp(Self, saved), Op("seekp", saved.off, 0, lastOp.op = "tellp"))
  /\ UNCHANGED <<isBits, bools, saved, phase, written, readBack, hw>>

NextPatch == StartWrite \/ AppendOne \/ Tellp \/ Seekp

SpecPatch == Init /\ [][NextPatch]_vars

\* A writer of either kind of stream that also saves and restores positions.
NextExtend ==
  StartWrite \/ AppendOne \/ AppendPiece \/ AppendBool \/ Tellp \/ Seekp

SpecExtend == Init /\ [][NextExtend]_vars

(***************************************************************************)
(* The input stream.  A reader is handed ranges over buffers it does not   *)
(* own; byte i of buffer j is 10 * j + i, so a byte tells where it came    *)
(* from.                                                                   *)
(***************************************************************************)
InputShapes == UNION {[1..k -> InputSizes] : k \in 1..MaxInputRanges}

InputMem(shape) == [j \in 1..Len(shape) |-> [i \in 1..shape[j] |-> 10 * j + i]]

InputRanges(shape) ==
  [j \in 1..Len(shape) |-> [buffer |-> j, size |-> shape[j], position |-> 0]]

\* resetInput(std::move(ranges)) on a new input stream (made by ByteStream(),
\* which sets isBits_ false).
ResetInput ==
  /\ phase = "new"
  /\ ~isBits
  /\ \E shape \in InputShapes : \E blk \in AllocBlocks :
       Install(resetInput([Self EXCEPT !.mem = InputMem(shape)],
                          InputRanges(shape), blk),
               Op("resetInput", Len(shape), 0, FALSE))
  /\ phase' = "input"
  /\ UNCHANGED <<isBits, bools, saved, written, readBack, hw>>

\* setRange(range) on a new input stream.
SetRange ==
  /\ phase = "new"
  /\ ~isBits
  /\ \E sz \in InputSizes : \E blk \in AllocBlocks :
       Install(setRange([Self EXCEPT !.mem = InputMem(<<sz>>)],
                        InputRanges(<<sz>>)[1], blk),
               Op("setRange", sz, 0, FALSE))
  /\ phase' = "input"
  /\ UNCHANGED <<isBits, bools, saved, written, readBack, hw>>

\* readByte()
ReadByte ==
  /\ phase = "input"
  /\ Install(readByte(Self), Op("readByte", 1, 1, FALSE))
  /\ UNCHANGED <<isBits, bools, saved, phase, written, readBack, hw>>

\* read<T>()
Read ==
  /\ phase = "input"
  /\ \E w \in Widths : Install(read(Self, w), Op("read", w, w, FALSE))
  /\ UNCHANGED <<isBits, bools, saved, phase, written, readBack, hw>>

\* readBytes(bytes, size)
ReadBytes ==
  /\ phase = "input"
  /\ \E n \in 0..MaxRequest :
       Install(readBytes(Self, n), Op("readBytes", n, 0, FALSE))
  /\ UNCHANGED <<isBits, bools, saved, phase, written, readBack, hw>>

\* skip(size)
Skip ==
  /\ phase = "input"
  /\ \E n \in 0..MaxRequest : Install(skip(Self, n), Op("skip", n, 0, FALSE))
  /\ UNCHANGED <<isBits, bools, saved, phase, written, readBack, hw>>

\* nextView(size)
NextView ==
  /\ phase = "input"
  /\ \E n \in 0..MaxRequest :
       Install(nextView(Self, n), Op("nextView", n, 0, FALSE))
  /\ UNCHANGED <<isBits, bools, saved, phase, written, readBack, hw>>

\* next(throwIfPastEnd), called by the user of the stream.  The record keeps
\* in n the position the following range had before the call.
NextRange ==
  /\ phase = "input"
  /\ \E throwIfPastEnd \in BOOLEAN :
       Install(next(Self, throwIfPastEnd),
               Op("next",
                  IF current.idx < Len(ranges)
                  THEN ranges[current.idx + 1].position ELSE 0,
                  0, throwIfPastEnd))
  /\ UNCHANGED <<isBits, bools, saved, phase, written, readBack, hw>>

\* seek(range, position) to a position inside an existing range.
Seek ==
  /\ phase = "input"
  /\ \E range \in 0..(Len(ranges) - 1) :
       \E position \in 0..ranges[range + 1].size :
         Install(seek(Self, range, position),
                 Op("seek", position, range, FALSE))
  /\ UNCHANGED <<isBits, bools, saved, phase, written, readBack, hw>>

\* atEnd(): ret.val is 1 for true and 0 for false.
AtEnd ==
  /\ phase = "input"
  /\ Install(Res(Self, atEnd(Self).out,
                 [NoRet EXCEPT !.val = IF atEnd(Self).val THEN 1 ELSE 0]),
             Op("atEnd", 0, 0, FALSE))
  /\ UNCHANGED <<isBits, bools, saved, phase, written, readBack, hw>>

\* writePosition(), on a stream without ranges too: ret.vbuf and ret.vstart
\* are the buffer and the offset of the pointer returned (vbuf 0: nullptr).
WritePosition ==
  /\ phase \in {"new", "input", "output"}
  /\ outcome # "ub"
  /\ Install(Res(Self, "ok",
                 [NoRet EXCEPT !.vbuf = writePosition(Self).buffer,
                               !.vstart = writePosition(Self).offset]),
             Op("writePosition", 0, 0, FALSE))
  /\ UNCHANGED <<isBits, bools, saved, phase, written, readBack, hw>>

\* A reader that only reads: readByte, read<T>, readBytes, skip, nextView.
NextRead ==
  ResetInput \/ SetRange \/ ReadByte \/ Read \/ ReadBytes \/ Skip \/ NextView

SpecRead == Init /\ [][NextRead]_vars

\* A reader that also steps to the next range by itself.
NextInput == NextRead \/ NextRange

SpecInput == Init /\ [][NextInput]_vars

\* A reader that moves about its ranges: readByte, next and seek.
NextStep == ResetInput \/ SetRange \/ ReadByte \/ NextRange \/ Seek

SpecStep == Init /\ [][NextStep]_vars

\* A reader that also observes: atEnd and writePosition.
NextObserve == NextInput \/ AtEnd \/ WritePosition

SpecObserve == Init /\ [][NextObserve]_vars

\* Every call that moves a position, on a stream of either addressing mode.
NextModes ==
  \/ StartWrite \/ AppendOne \/ AppendBool \/ AppendBoolOnBytes
  \/ Tellp \/ Seekp
  \/ NextInput \/ Seek

SpecModes == Init /\ [][NextModes]_vars

\* Every call on every stream.
Next ==
  \/ StartWrite \/ AppendOne \/ AppendValues \/ AppendPiece \/ AppendBool
  \/ AppendBoolOnBytes \/ Tellp \/ Seekp \/ Reread \/ ReadBack
  \/ ResetInput \/ SetRange \/ ReadByte \/ Read \/ ReadBytes \/ Skip
  \/ NextView \/ NextRange \/ Seek \/ AtEnd \/ WritePosition

Spec == Init /\ [][Next]_vars

(***************************************************************************)
(* Properties of the output path, checked under SpecWrite.                 *)
(***************************************************************************)
RECURSIVE TotalBytes(_)
TotalBytes(items) ==
  IF Len(items) = 0 THEN 0
  ELSE Len(items[1].bytes) + TotalBytes(Tail(items))

\* C1: round trip.  Every primitive value read back with read<T> from the
\* written content, in range order, is read without failure and equals the
\* value appended at that place of the sequence, whether or not its bytes were
\* split between two ranges.
C1_RoundTrip ==
  \A i \in 1..Len(readBack) :
    written[i].w > 0 =>
      /\ readBack[i].out = "ok"
      /\ readBack[i].v = written[i].v

\* A 4-byte 0x11223344 was appended with 2 bytes left in the current range, the
\* stream extended, and the value has been read back.
C1_Witness ==
  /\ phase = "reread"
  /\ Len(ranges) >= 2
  /\ \E i \in 1..Len(readBack) :
       /\ written[i].w = 4
       /\ written[i].fit = 2
       /\ written[i].v = 287454020
       /\ readBack[i].v = 287454020

\* C2: while the stream is written with append, appendOne and
\* appendStringPiece, size() equals the number of bytes passed to those calls.
C2_SizeIsBytesAppended ==
  phase = "output" => size(Self) = TotalBytes(written)

\* The stream was extended twice after startWrite and holds more than a page.
C2_Witness ==
  /\ phase = "output"
  /\ Len(ranges) >= 3
  /\ size(Self) > kPageSize
  /\ \E i \in 1..Len(written) : written[i].w = 0
  /\ \E i \in 1..Len(written) : written[i].w = 4

(***************************************************************************)
(* Properties of tellp and seekp, checked under SpecPatch.                 *)
(***************************************************************************)
\* C3: backpatching.  A Position captured with tellp stays usable after any
\* later appends, extending ones included: seekp with it succeeds and makes
\* current the element of the range sequence it was taken in, at the saved
\* offset.
C3_SavedPositionStaysUsable ==
  lastOp.op = "seekp" =>
    /\ outcome = "ok"
    /\ current.blk = vecBlock
    /\ current.idx = saved.ptr.idx
    /\ ranges[current.idx].position = saved.off

\* The bytes the appends since the state before the step passed to the stream.
RECURSIVE ItemBytes(_)
ItemBytes(items) ==
  IF Len(items) = 0 THEN <<>>
  ELSE items[1].bytes \o ItemBytes(Tail(items))

\* The step is a write of the bytes data at the current position that stores
\* them there and changes no other byte of any buffer and no other range.
WritesInPlace(data) ==
  LET c == current.idx
      b == ranges[c].buffer
      p == ranges[c].position
      n == Len(data)
  IN /\ \A i \in 1..Min(n, ranges[c].size - p) : mem'[b][p + i] = data[i]
     /\ \A i \in 1..Len(mem[b]) : (i <= p \/ i > p + n) => mem'[b][i] = mem[b][i]
     /\ Len(mem'[b]) = Len(mem[b])
     /\ \A o \in 1..Len(mem) : o # b => mem'[o] = mem[o]
     /\ \A j \in 1..Len(ranges) : j # c => ranges'[j] = ranges[j]
     /\ ranges'[c].buffer = b
     /\ ranges'[c].size = ranges[c].size

\* C4: seekp(tellp()) with nothing in between leaves the current range and its
\* offset (and the whole stream) as they were, and a write right after it
\* stores its bytes at that position without moving or changing any byte
\* outside the written region.
C4_TellSeekWrite ==
  [][/\ (lastOp.op = "tellp" /\ lastOp'.op = "seekp") =>
          /\ outcome' = "ok"
          /\ current' = current
          /\ ranges' = ranges
          /\ mem' = mem
     /\ (/\ lastOp.op = "seekp"
         /\ lastOp.flag
         /\ lastOp'.op = "append") =>
          WritesInPlace(ItemBytes(SubSeq(written', Len(written) + 1,
                                         Len(written'))))]_vars

\* A write right after seekp(tellp()) has overwritten bytes in the middle of
\* what the current range holds: written bytes lie after the written region.
C4_Witness ==
  /\ lastOp.op = "append"
  /\ lastOp.flag
  /\ outcome = "ok"
  /\ ranges[current.idx].position < hw[current.idx]
  /\ ranges[current.idx].position > lastOp.n * lastOp.w

(***************************************************************************)
(* Properties of the input path.                                           *)
(***************************************************************************)
RECURSIVE SumSizes(_)
SumSizes(rs) ==
  IF Len(rs) = 0 THEN 0
  ELSE rs[1].size + SumSizes(Tail(rs))

\* The ranges after the current one.
Following == SubSeq(ranges, current.idx + 1, Len(ranges))

\* The number of unread bytes: the rest of the current range and the whole
\* of every following range.
Unread ==
  ranges[current.idx].size - ranges[current.idx].position + SumSizes(Following)

RECURSIVE BytesOf(_)
BytesOf(rs) ==
  IF Len(rs) = 0 THEN <<>>
  ELSE SubSeq(mem[rs[1].buffer], 1, rs[1].size) \o BytesOf(Tail(rs))

\* The unread bytes in stream order.
Logical ==
  SubSeq(mem[ranges[current.idx].buffer], ranges[current.idx].position + 1,
         ranges[current.idx].size) \o BytesOf(Following)

\* C5: for a reader using readByte, read<T>, readBytes, skip and nextView,
\* atEnd() is true exactly when every byte of every range has been consumed.
C5_AtEndIffAllConsumed ==
  phase = "input" => (atEnd(Self).val <=> Unread = 0)

\* C6: next() at the last range changes nothing of the stream and raises the
\* end-of-stream failure exactly when throwIfPastEnd; before the last range
\* it makes the following range current and sets that range's position to 0.
C6_Next ==
  [][lastOp'.op = "next" =>
       IF current.idx = Len(ranges)
       THEN /\ UNCHANGED <<ranges, current, mem, vecBlock>>
            /\ outcome' = IF lastOp'.flag THEN "eos" ELSE "ok"
       ELSE /\ current' = [current EXCEPT !.idx = @ + 1]
            /\ ranges' = [ranges EXCEPT ![current.idx + 1].position = 0]
            /\ outcome' = "ok"
            /\ UNCHANGED <<mem, vecBlock>>]_vars

\* next() has moved to a range that had been read before and rewound it.
C6_Witness ==
  /\ lastOp.op = "next"
  /\ outcome = "ok"
  /\ current.idx >= 2
  /\ lastOp.n > 0
  /\ ranges[current.idx].position = 0

\* The view nextView returned is at most lastOp.n bytes and lies inside the
\* current range, ending at its position.
ViewInOneRange ==
  /\ ret.val >= 0
  /\ ret.val <= lastOp.n
  /\ ret.val > 0 =>
       /\ ret.vbuf = ranges[current.idx].buffer
       /\ ret.vstart >= 0
       /\ ret.vstart + ret.val = ranges[current.idx].position
       /\ ranges[current.idx].position <= ranges[current.idx].size

\* C7 as claimed: for every k, nextView(k) returns a view of at most k bytes
\* inside one range, of length 0 only when no unread byte remains.
C7_ViewEmptyOnlyAtEnd ==
  (lastOp.op = "nextView" /\ outcome = "ok") =>
    /\ ViewInOneRange
    /\ ret.val = 0 => Unread = 0

\* C7 amended: for every k, nextView(k) returns a view of at most k bytes
\* inside one range, and for k >= 1 its length is 0 only when no unread byte
\* remains.
C7_ViewBounded ==
  (lastOp.op = "nextView" /\ outcome = "ok") =>
    /\ ViewInOneRange
    /\ (lastOp.n >= 1 /\ ret.val = 0) => Unread = 0

\* nextView returned a view cut short by the end of a range while bytes remain.
C7_Witness ==
  /\ lastOp.op = "nextView"
  /\ outcome = "ok"
  /\ ret.val > 0
  /\ ret.val < lastOp.n
  /\ Unread > 0

C9_ReadBytes ==
  [][(phase = "input" /\ lastOp'.op = "readBytes" /\ lastOp'.n <= Unread) =>
       /\ outcome' = "ok"
       /\ ret'.bytes = SubSeq(Logical, 1, lastOp'.n)
       /\ Unread' = Unread - lastOp'.n]_vars

\* readBytes has copied bytes of three different buffers.
C9_Witness ==
  /\ lastOp.op = "readBytes"
  /\ outcome = "ok"
  /\ Len(ret.bytes) >= 3
  /\ \E i, j, k \in 1..Len(ret.bytes) :
       /\ ret.bytes[i] \div 10 < ret.bytes[j] \div 10
       /\ ret.bytes[j] \div 10 < ret.bytes[k] \div 10

\* C10: readByte, read<T> and readBytes raise the end-of-stream failure when
\* they ask for more bytes than are unread, and otherwise succeed; readByte
\* makes fewer calls of next() than there are ranges.
C10_EndOfStream ==
  [][(phase = "input" /\ lastOp'.op \in {"readByte", "read", "readBytes"}) =>
       /\ outcome' = IF lastOp'.n > Unread THEN "eos" ELSE "ok"
       /\ lastOp'.op = "readByte" => ret'.hops < Len(ranges)]_vars

\* readByte has stepped over an empty range to return a byte.
C10_Witness ==
  /\ lastOp.op = "readByte"
  /\ outcome = "ok"
  /\ ret.hops >= 2
  /\ ret.val > 0

(***************************************************************************)
(* Properties of the bit-addressed output path.                            *)
(***************************************************************************)
\* The first n bits of a buffer, from bit k on.
RECURSIVE BitsFrom(_, _, _)
BitsFrom(bytes, k, n) ==
  IF k >= n THEN <<>> ELSE <<BitAt(bytes, k)>> \o BitsFrom(bytes, k + 1, n)

\* The bits a stream holds: the first position bits of each range, in range
\* order.
RECURSIVE StoredBits(_, _)
StoredBits(rs, m) ==
  IF Len(rs) = 0 THEN <<>>
  ELSE BitsFrom(m[rs[1].buffer], 0, rs[1].position) \o StoredBits(Tail(rs), m)

\* The bits the calls of appendBool were given, in order.
RECURSIVE AppendedBits(_)
AppendedBits(runs) ==
  IF Len(runs) = 0 THEN <<>>
  ELSE [i \in 1..runs[1].n |-> runs[1].v] \o AppendedBits(Tail(runs))

\* The free bits of the current range.
FreeBits == ranges[current.idx].size * 8 - ranges[current.idx].position

\* C11: bit round trip.  After every appendBool on a bit-addressed stream the
\* bits held in the first position bits of the ranges, in range order, are
\* the appended sequence; and appendBool(true, 10) with exactly 4 free bits in
\* the current range extends exactly once.
C11_BitRoundTrip ==
  [][(isBits /\ lastOp'.op = "appendBool") =>
       /\ outcome' = "ok"
       /\ StoredBits(ranges', mem') = AppendedBits(bools')
       /\ (lastOp'.n = 10 /\ FreeBits = 4) =>
            /\ Len(ranges') = Len(ranges) + 1
            /\ Len(ret'.reqs) = 1]_vars

\* appendBool(true, 10) met 4 free bits and extended once; the stream now
\* holds three ranges and a number of bits that is not a multiple of 8, true
\* and false ones.
C11_Witness ==
  /\ isBits
  /\ lastOp.op = "appendBool"
  /\ lastOp.n = 10
  /\ bools[Len(bools)].v = 1
  /\ Len(ret.reqs) = 1
  /\ Len(ranges) = 3
  /\ ranges[3].position = 6
  /\ size(Self) % 8 # 0
  /\ \E i \in 1..Len(bools) : bools[i].v = 0 /\ bools[i].n > 0

Capacity(i) ==
  IF isBits \/ phase = "misused" THEN 8 * ranges[i].size ELSE ranges[i].size

C13_CurrentIsAnElement ==
  Len(ranges) > 0 => Live(Self)

\* C14: appendBool on a stream that is not bit-addressed triggers the
\* programming-error check, whatever the count, and writes nothing.
C14_AppendBoolChecked ==
  (~isBits /\ lastOp.op = "appendBool") =>
    /\ outcome = "check"
    /\ \A i \in 1..Len(ranges) : ranges[i].position = 0

(***************************************************************************)
(* Frame properties.                                                       *)
(***************************************************************************)
\* The calls that may extend the stream.
Writers == {"startWrite", "append", "appendStringPiece", "appendBool"}

\* The number of calls of extend the step has made.
Extensions == IF lastOp'.op = "startWrite" THEN 1 ELSE Len(ret'.reqs)

\* The written part of range i, bytes or bits, is the same after the step.
WrittenKept(i) ==
  LET b == ranges[i].buffer IN
  IF isBits
  THEN BitsFrom(mem'[b], 0, ranges[i].position)
         = BitsFrom(mem[b], 0, ranges[i].position)
  ELSE SubSeq(mem'[b], 1, ranges[i].position)
         = SubSeq(mem[b], 1, ranges[i].position)

\* The stream e is the present one with one range added at the end: every
\* range and every buffer there was is as it is now, and the new range, empty
\* and over a new buffer, is current.
ExtendedByOne(e) ==
  /\ Len(e.ranges) = Len(ranges) + 1
  /\ SubSeq(e.ranges, 1, Len(ranges)) = ranges
  /\ Len(e.mem) = Len(mem) + 1
  /\ SubSeq(e.mem, 1, Len(mem)) = mem
  /\ e.current = [blk |-> e.vecBlock, idx |-> Len(e.ranges)]
  /\ e.ranges[Len(e.ranges)].buffer = Len(e.mem)
  /\ e.ranges[Len(e.ranges)].position = 0

\* C15: extend, called in any state a writer is in, adds one range at the end,
\* makes it current and leaves every other range and buffer as it was.  So
\* a call that extends the stream k times appends k ranges, each by its
\* own extension, and ends with the new last range current; every range
\* that existed keeps its place, buffer and size, every range but the one that
\* was current keeps its position and the whole of its buffer, and no range
\* loses what was written to it (its position does not go back and the bytes
\* or bits below it stay).  No writer removes or reorders ranges.
C15_ExtendAppendsOneRange ==
  [][lastOp'.op \in Writers =>
       /\ \A a \in Env : \A bytes \in 1..kPageSize :
            ExtendedByOne(extend(Self, bytes, a))
       /\ Len(ranges') = Len(ranges) + Extensions
       /\ Len(mem') = Len(mem) + Extensions
       /\ Extensions > 0 =>
            current' = [blk |-> vecBlock', idx |-> Len(ranges')]
       /\ \A j \in (Len(ranges) + 1)..Len(ranges') :
            ranges'[j].buffer = Len(mem) + (j - Len(ranges))
       /\ \A i \in 1..Len(ranges) :
            /\ ranges'[i].buffer = ranges[i].buffer
            /\ ranges'[i].size = ranges[i].size
            /\ ranges'[i].position >= ranges[i].position
            /\ Len(mem'[ranges[i].buffer]) = Len(mem[ranges[i].buffer])
            /\ WrittenKept(i)
            /\ i # current.idx =>
                 /\ ranges'[i] = ranges[i]
                 /\ mem'[ranges[i].buffer] = mem[ranges[i].buffer]]_vars

\* A call has extended a stream of two ranges that hold data.
C15_Witness ==
  /\ lastOp.op \in {"append", "appendStringPiece", "appendBool"}
  /\ Len(ret.reqs) = 1
  /\ Len(ranges) = 3
  /\ current.idx = 3
  /\ ranges[1].position > 0
  /\ ranges[2].position > 0
  /\ vecCap > Len(ranges)

\* The input operations and the observers.
Readers ==
  {"readByte", "read", "readBytes", "skip", "nextView", "next", "atEnd",
   "writePosition"}

\* C16: readByte, read<T>, readBytes, skip, nextView, next, atEnd and
\* writePosition leave the number of ranges, every range's buffer and size,
\* every buffer byte and the storage of the range sequence as they were;
\* atEnd and writePosition leave the positions and current as they were too,
\* and writePosition returns null on a stream without ranges.
C16_ReadersKeepRanges ==
  [][lastOp'.op \in Readers =>
       /\ Len(ranges') = Len(ranges)
       /\ \A i \in 1..Len(ranges) :
            /\ ranges'[i].buffer = ranges[i].buffer
            /\ ranges'[i].size = ranges[i].size
       /\ UNCHANGED <<mem, vecBlock, vecCap>>
       /\ lastOp'.op \in {"atEnd", "writePosition"} =>
            UNCHANGED <<ranges, current>>
       /\ lastOp'.op = "writePosition" =>
            /\ outcome' = "ok"
            /\ Len(ranges) = 0 => (ret'.vbuf = 0 /\ ret'.vstart = 0)
            /\ Len(ranges) > 0 =>
                 /\ ret'.vbuf = ranges[current.idx].buffer
                 /\ ret'.vstart = ranges[current.idx].position]_vars

\* writePosition was called in the middle of the second range of an input
\* stream that reads had moved along.
C16_Witness ==
  /\ lastOp.op = "writePosition"
  /\ phase = "input"
  /\ current.idx = 2
  /\ ret.vbuf = ranges[2].buffer
  /\ ret.vstart > 0
  /\ ret.vstart < ranges[2].size
  /\ ranges[1].position = ranges[1].size

(***************************************************************************)
(* The loops.                                                              *)
(***************************************************************************)
\* The number of bytes the byte append of the step was given.
Given == IF lastOp'.op = "append" THEN lastOp'.n * lastOp'.w ELSE lastOp'.n

\* C17: the loop of appendStringPiece (called directly, or by append for
\* values that do not fit) returns, with all its bytes in the stream.  It
\* calls extend only when bytes are left over after the current range is
\* full, asks for the left-over bytes rounded up to whole pages, never for
\* zero, and, the arena giving at least what is asked, extends at most once.
C17_AppendLoopTerminates ==
  [][lastOp'.op \in {"append", "appendStringPiece"} =>
       /\ outcome' = "ok"
       /\ SumPositions(ranges') = SumPositions(ranges) + Given
       /\ Len(ret'.reqs) = IF Given > Room THEN 1 ELSE 0
       /\ \A k \in 1..Len(ret'.reqs) :
            /\ ret'.reqs[k] > 0
            /\ ret'.reqs[k] % kPageSize = 0
            /\ ret'.reqs[k] >= Given - Room
            /\ ret'.reqs[k] < Given - Room + kPageSize]_vars

\* appendStringPiece found one free byte for a piece of three, asked extend
\* for a page and returned with the other two bytes in the new range.
C17_Witness ==
  /\ lastOp.op = "appendStringPiece"
  /\ lastOp.n = 3
  /\ ret.reqs = <<kPageSize>>
  /\ Len(ranges) >= 2
  /\ ranges[current.idx].position = 2
  /\ ranges[current.idx - 1].position = ranges[current.idx - 1].size

\* C18: from any state of an input stream and for any n, skip(n) and
\* readBytes(dest, n) end with the same current range and the same position
\* in every range, and one raises the end-of-stream failure exactly when the
\* other does; skip copies nothing and neither changes a buffer.
C18_SkipLikeReadBytes ==
  [][(phase = "input" /\ lastOp'.op \in {"skip", "readBytes"}) =>
       /\ skip(Self, lastOp'.n).s = readBytes(Self, lastOp'.n).s
       /\ skip(Self, lastOp'.n).out = readBytes(Self, lastOp'.n).out
       /\ ranges' = skip(Self, lastOp'.n).s.ranges
       /\ current' = readBytes(Self, lastOp'.n).s.current
       /\ outcome' = skip(Self, lastOp'.n).out
       /\ outcome' \in {"ok", "eos"}
       /\ lastOp'.op = "skip" => ret'.bytes = <<>>
       /\ mem' = mem]_vars

\* skip has crossed into the third range of a stream, over a range that
\* holds data.
C18_Witness ==
  /\ lastOp.op = "skip"
  /\ outcome = "ok"
  /\ current.idx = 3
  /\ ranges[3].position > 0
  /\ ranges[3].position < lastOp.n
  /\ ranges[2].size > 0

(***************************************************************************)
(* The layout of what was written.                                         *)
(***************************************************************************)
\* The bytes a stream holds: the first position bytes of each range, in range
\* order.
RECURSIVE StoredBytes(_, _)
StoredBytes(rs, m) ==
  IF Len(rs) = 0 THEN <<>>
  ELSE SubSeq(m[rs[1].buffer], 1, rs[1].position) \o StoredBytes(Tail(rs), m)

\* C19: no gaps.  While a stream is only appended to (no seek), every range
\* but the last is full: its position is its size on a byte-addressed stream
\* and 8 * size, every bit of the buffer, on a bit-addressed one; so what the
\* ranges hold up to their positions, in range order, is what was appended.
C19_NoGaps ==
  phase = "output" =>
    /\ \A i \in 1..(Len(ranges) - 1) :
         ranges[i].position = IF isBits THEN 8 * ranges[i].size
                              ELSE ranges[i].size
    /\ current.idx = Len(ranges)
    /\ IF isBits THEN StoredBits(ranges, mem) = AppendedBits(bools)
       ELSE StoredBytes(ranges, mem) = ItemBytes(written)

\* A byte-addressed stream was extended twice by values and pieces that did
\* not fit, and its last range is partly filled.
C19_Witness ==
  /\ phase = "output"
  /\ ~isBits
  /\ Len(ranges) = 3
  /\ ranges[3].position > 0
  /\ ranges[3].position < ranges[3].size
  /\ \E i \in 1..Len(written) : written[i].w = 4 /\ written[i].fit \in 1..3
  /\ \E i \in 1..Len(written) : written[i].w = 0 /\ Len(written[i].bytes) = 3

====
